---- MODULE Spec2Model ----
(***************************************************************************)
(* Model of the upload-and-render controller of src/static/js/app.js:      *)
(* class ImageClassifier, its event listeners and the page-level keyboard  *)
(* shortcuts.  One action per listener / handler; the asynchronous         *)
(* classifyImage is cut at its two awaits (fetch, response.json()).        *)
(***************************************************************************)
EXTENDS Integers, Sequences, FiniteSets, TLC

(***************************************************************************)
(* Bounds of the model.                                                    *)
(***************************************************************************)
\* fetch() calls issued in one behaviour
MaxRequests == 2
\* error toasts attached to the document at the same time
MaxToasts == 1
\* files carried by one drop event
MaxDrop == 2

(***************************************************************************)
(* Files.  A File object is its name, declared MIME type and size.         *)
(* Null stands for JavaScript's null / undefined (both falsy).             *)
(***************************************************************************)
Null == [name |-> "null", type |-> "null", size |-> 0]

MkFile(n, t, s) == [name |-> n, type |-> t, size |-> s]

\* files offered by the picker / drag surface in the controller model
Files ==
    { MkFile("photo.jpg", "image/jpeg", 2097152),
      MkFile("icon.png", "image/png", 16777216),
      MkFile("huge.png", "image/png", 16777217),
      MkFile("notes.txt", "text/plain", 2097152) }

\* files a drop event may carry
DropFiles ==
    { MkFile("icon.png", "image/png", 16777216),
      MkFile("notes.txt", "text/plain", 2097152) }

\* files offered in the validation model: every type with every size
Types ==
    { "image/png", "image/jpeg", "image/jpg", "image/gif", "image/bmp",
      "image/tiff", "image/webp", "application/pdf", "" }

Sizes == { 0, 2097152, 16777216, 16777217 }

AllFiles == { MkFile(t \o "@" \o ToString(s), t, s) : t \in Types, s \in Sizes }

(***************************************************************************)
(* Pure helpers of ImageClassifier.                                        *)
(***************************************************************************)
validTypes ==
    { "image/png", "image/jpeg", "image/jpg", "image/gif", "image/bmp",
      "image/tiff" }

isValidImageFile(file) == file.type \in validTypes

\* two decimals of a number given in hundredths, as parseFloat(x.toFixed(2))
\* prints it: trailing zeros and a trailing point are dropped
HundredthsText(h) ==
    LET whole == h \div 100
        frac  == h % 100
    IN  IF frac = 0 THEN ToString(whole)
        ELSE IF frac % 10 = 0
             THEN ToString(whole) \o "." \o ToString(frac \div 10)
        ELSE IF frac < 10
             THEN ToString(whole) \o ".0" \o ToString(frac)
        ELSE ToString(whole) \o "." \o ToString(frac)

\* sizes below 2^30 only: i = floor(log(bytes) / log(1024)) is 0, 1 or 2
formatFileSize(bytes) ==
    IF bytes = 0 THEN "0 Bytes"
    ELSE LET k     == 1024
             sizes == << "Bytes", "KB", "MB", "GB" >>
             i     == IF bytes < k THEN 0 ELSE IF bytes < k * k THEN 1 ELSE 2
             unit  == IF i = 0 THEN 1 ELSE IF i = 1 THEN k ELSE k * k
             \* toFixed(2) rounds to the nearest hundredth, ties upwards
             h     == (bytes \div unit) * 100
                        + ((bytes % unit) * 200 + unit) \div (2 * unit)
         IN  HundredthsText(h) \o " " \o sizes[i + 1]

(***************************************************************************)
(* The document: the d-none class of the five elements the controller      *)
(* toggles, as functions from element id to "has class d-none".            *)
(***************************************************************************)
Elements ==
    { "file-info", "classify-btn", "results-section", "results-display",
      "processing" }

displayFileInfo(d) == [d EXCEPT !["file-info"] = FALSE]

showClassifyButton(d) == [d EXCEPT !["classify-btn"] = FALSE]

hideResults(d) ==
    [d EXCEPT !["results-section"] = TRUE, !["results-display"] = TRUE]

showProcessing(d) ==
    [d EXCEPT !["processing"] = FALSE,
              !["results-section"] = FALSE,
              !["results-display"] = TRUE]

hideProcessing(d) == [d EXCEPT !["processing"] = TRUE]

(***************************************************************************)
(* Text that is assigned to innerHTML: a sequence of runs, each plain text *)
(* or markup (a tag).  The parser turns markup into elements, so only the  *)
(* plain runs are shown as text.                                           *)
(***************************************************************************)
Text(s) == << [kind |-> "text", s |-> s] >>

Tag(s) == << [kind |-> "tag", s |-> s] >>

IsText(run) == run.kind = "text"

\* what an element shows once message is assigned to its innerHTML
innerHTML(message) == SelectSeq(message, IsText)

(***************************************************************************)
(* Messages of showError.                                                  *)
(***************************************************************************)
MsgInvalidType ==
    Text("Please select a valid image file (PNG, JPG, JPEG, GIF, BMP, TIFF)")

MsgTooLarge == Text("File size must be less than 16MB")

MsgGeneric ==
    Text("An error occurred during classification. Please try again.")

MsgFailed == Text("Classification failed")


(***************************************************************************)
(* Outcomes of the two awaits of classifyImage.                            *)
(***************************************************************************)
Prediction(c, p) == [class |-> c, probability |-> p]

\* a parsed JSON body; processing_time is in hundredths of a second, an
\* absent or empty error is << >>
Body(s, hp, ps, t, e) ==
    [success |-> s, hasPredictions |-> hp, predictions |-> ps,
     processing_time |-> t, error |-> e]

BodyCatDog ==
    Body(TRUE, TRUE,
         << Prediction(Text("cat"), 90), Prediction(Text("dog"), 10) >>,
         42, << >>)

BodyRetriever ==
    Body(TRUE, TRUE, << Prediction(Text("golden retriever"), 95) >>, 15, << >>)

\* success without a predictions member
BodyNoPredictions == Body(TRUE, FALSE, << >>, 15, << >>)

BodyError == Body(FALSE, FALSE, << >>, 0, Text("Model unavailable"))

\* failure whose error text carries markup
BodyMarkupError ==
    Body(FALSE, FALSE, << >>, 0,
         Text("Unsupported ") \o Tag("<b>") \o Text("format") \o Tag("</b>"))

\* failure without an error member
BodyNoError == Body(FALSE, FALSE, << >>, 0, << >>)

Bodies ==
    { BodyCatDog, BodyRetriever, BodyNoPredictions, BodyError,
      BodyMarkupError, BodyNoError }

(***************************************************************************)
(* State.                                                                  *)
(***************************************************************************)
VARIABLES
    currentFile,        \* this.currentFile
    dNone,              \* element id -> the element has class d-none
    fileInputValue,     \* value of #file-input: "" or the chosen file's path
    fileNameText,       \* textContent of #file-name
    fileSizeText,       \* textContent of #file-size
    toasts,             \* error toasts in document.body, oldest first
    pending,            \* classifyImage invocations suspended at an await
    issued,             \* number of fetch() calls made so far
    rejected,           \* some promise returned by classifyImage() rejected
    readers,            \* files a FileReader is still reading
    previewSrc,         \* src of #preview-image
    predictionsList,    \* rows of #predictions-list
    processingTimeText  \* textContent of #processing-time

vars ==
    << currentFile, dNone, fileInputValue, fileNameText, fileSizeText,
       toasts, pending, issued, rejected, readers, previewSrc,
       predictionsList, processingTimeText >>

\* what the controller shows of the selection
selection == << currentFile, dNone, fileNameText, fileSizeText >>

\* what the controller shows of a classification
rendering == << readers, previewSrc, predictionsList, processingTimeText >>

Init ==
    /\ currentFile = Null
    /\ dNone = [e \in Elements |-> TRUE]
    /\ fileInputValue = ""
    /\ fileNameText = ""
    /\ fileSizeText = ""
    /\ toasts = << >>
    /\ pending = {}
    /\ issued = 0
    /\ rejected = FALSE
    /\ readers = {}
    /\ previewSrc = ""
    /\ predictionsList = << >>
    /\ processingTimeText = ""

(***************************************************************************)
(* Synchronous handlers.                                                   *)
(***************************************************************************)
\* the toast list after document.body.appendChild(toast)
showError(ts, message) == Append(ts, innerHTML(message))

\* a new toast fits in the model
ToastRoom == Len(toasts) < MaxToasts

\* fault: the size limit is exclusive
rejectionSizeInclusive(file) ==
    IF ~isValidImageFile(file) THEN MsgInvalidType
    ELSE IF file.size >= 16 * 1024 * 1024 THEN MsgTooLarge
    ELSE << >>

\* fault: the size is checked before the type
rejectionSizeFirst(file) ==
    IF file.size > 16 * 1024 * 1024 THEN MsgTooLarge
    ELSE IF ~isValidImageFile(file) THEN MsgInvalidType
    ELSE << >>

\* fault: the size is not checked
rejectionNoSizeCheck(file) ==
    IF ~isValidImageFile(file) THEN MsgInvalidType ELSE << >>

\* lines 62-72: the message of the check that refuses the file, << >> if none
rejection(file) ==
    IF ~isValidImageFile(file) THEN MsgInvalidType
    ELSE IF file.size > 16 * 1024 * 1024 THEN MsgTooLarge
    ELSE << >>

\* fault: a new selection leaves the results as they are
handleFileSelectKeepsResults(file) ==
    IF file = Null
    THEN UNCHANGED << selection, toasts >>
    ELSE IF rejection(file) # << >>
    THEN /\ ToastRoom
         /\ toasts' = showError(toasts, rejection(file))
         /\ UNCHANGED selection
    ELSE /\ currentFile' = file
         /\ fileNameText' = file.name
         /\ fileSizeText' = formatFileSize(file.size)
         /\ dNone' = showClassifyButton(displayFileInfo(dNone))
         /\ UNCHANGED toasts

\* fault: the results are hidden before the file is validated
handleFileSelectHidesFirst(file) ==
    IF file = Null
    THEN UNCHANGED << selection, toasts >>
    ELSE IF rejection(file) # << >>
    THEN /\ ToastRoom
         /\ toasts' = showError(toasts, rejection(file))
         /\ dNone' = hideResults(dNone)
         /\ UNCHANGED << currentFile, fileNameText, fileSizeText >>
    ELSE /\ currentFile' = file
         /\ fileNameText' = file.name
         /\ fileSizeText' = formatFileSize(file.size)
         /\ dNone' = hideResults(showClassifyButton(displayFileInfo(dNone)))
         /\ UNCHANGED toasts

handleFileSelect(file) ==
    IF file = Null
    THEN UNCHANGED << selection, toasts >>
    ELSE IF rejection(file) # << >>
    THEN /\ ToastRoom
         /\ toasts' = showError(toasts, rejection(file))
         /\ UNCHANGED selection
    ELSE /\ currentFile' = file
         /\ fileNameText' = file.name
         /\ fileSizeText' = formatFileSize(file.size)
         /\ dNone' = hideResults(showClassifyButton(displayFileInfo(dNone)))
         /\ UNCHANGED toasts

\* what the browser reports as the value of a file input holding this file
FakePath(file) == "C:\\fakepath\\" \o file.name

\* 'change' on #file-input; file is e.target.files[0], Null when no file is chosen
ChangeListener(file) ==
    /\ fileInputValue' = IF file = Null THEN "" ELSE FakePath(file)
    /\ handleFileSelect(file)
    /\ UNCHANGED << pending, issued, rejected, rendering >>

\* fault: the last of the dropped files is taken
DropListenerLast(files) ==
    /\ IF Len(files) > 0
       THEN handleFileSelect(files[Len(files)])
       ELSE UNCHANGED << selection, toasts >>
    /\ UNCHANGED << fileInputValue, pending, issued, rejected, rendering >>

\* 'drop' on #drop-zone; files is e.dataTransfer.files.  The dragover class
\* of the drop zone, a highlight that nothing reads, is not part of the state.
DropListener(files) ==
    /\ IF Len(files) > 0
       THEN handleFileSelect(files[1])
       ELSE UNCHANGED << selection, toasts >>
    /\ UNCHANGED << fileInputValue, pending, issued, rejected, rendering >>

\* fault: the results section is left open
clearFileKeepsResults ==
    /\ currentFile' = Null
    /\ dNone' = [dNone EXCEPT !["file-info"] = TRUE,
                              !["classify-btn"] = TRUE]
    /\ fileInputValue' = ""
    /\ UNCHANGED << fileNameText, fileSizeText, toasts, pending,
                    issued, rejected, rendering >>

clearFile ==
    /\ currentFile' = Null
    /\ dNone' = [dNone EXCEPT !["file-info"] = TRUE,
                              !["classify-btn"] = TRUE,
                              !["results-section"] = TRUE]
    /\ fileInputValue' = ""
    /\ UNCHANGED << fileNameText, fileSizeText, toasts, pending,
                    issued, rejected, rendering >>

(***************************************************************************)
(* classifyImage, up to its first await.                                   *)
(***************************************************************************)
\* fault: the file is appended under another field name
RequestWrongField(n, file) ==
    [id |-> n, url |-> "/classify", method |-> "POST", field |-> "file",
     file |-> file, stage |-> "fetch"]

\* the fetch() call of an invocation: the request and where the invocation waits
Request(n, file) ==
    [id |-> n, url |-> "/classify", method |-> "POST", field |-> "image",
     file |-> file, stage |-> "fetch"]

classifyImage ==
    IF currentFile = Null
    THEN UNCHANGED vars
    ELSE /\ issued < MaxRequests
         /\ dNone' = showProcessing(dNone)
         /\ issued' = issued + 1
         /\ pending' = pending \cup { Request(issued + 1, currentFile) }
         /\ UNCHANGED << currentFile, fileInputValue, fileNameText,
                         fileSizeText, toasts, rejected, rendering >>

(***************************************************************************)
(* classifyImage after an await.  The rest of the try block works on a     *)
(* copy of the page (the fields it can change); threw records an           *)
(* exception, which skips the rest of the try block, caught that the catch *)
(* block handled it.                                                       *)
(***************************************************************************)
Page ==
    [dNone |-> dNone, readers |-> readers, predictionsList |-> predictionsList,
     processingTimeText |-> processingTimeText, toasts |-> toasts,
     threw |-> FALSE, caught |-> FALSE]

\* readAsDataURL(null) throws a TypeError; otherwise the read is started
displayImagePreview(p) ==
    IF currentFile = Null
    THEN [p EXCEPT !.threw = TRUE]
    ELSE [p EXCEPT !.readers = @ \cup { currentFile }]

\* `${x}` of a whole number
NumberText(x) == ToString(x)

\* the element built for predictions[index] (index from 0)
PredictionItem(prediction, index) ==
    [className |-> "prediction-item top-" \o NumberText(index + 1),
     label |-> innerHTML(prediction.class),
     confidence |-> "Confidence: " \o NumberText(prediction.probability) \o "%",
     width |-> NumberText(prediction.probability) \o "%",
     badge |-> NumberText(index + 1)]

\* undefined.forEach throws a TypeError, after the list has been emptied
displayPredictions(result, p) ==
    IF ~result.hasPredictions
    THEN [p EXCEPT !.predictionsList = << >>, !.threw = TRUE]
    ELSE [p EXCEPT !.predictionsList =
                      [i \in 1 .. Len(result.predictions) |->
                          PredictionItem(result.predictions[i], i - 1)]]

displayResults(result, p) ==
    LET shown     == [p EXCEPT !.dNone = [@ EXCEPT !["results-section"] = FALSE,
                                                   !["results-display"] = FALSE]]
        previewed == displayImagePreview(shown)
        listed    == IF previewed.threw THEN previewed
                     ELSE displayPredictions(result, previewed)
    IN  IF listed.threw THEN listed
        ELSE [listed EXCEPT !.processingTimeText =
                               HundredthsText(result.processing_time)]

\* lines 144-148: the branch on result.success
applyResult(result, p) ==
    IF result.success
    THEN displayResults(result, p)
    ELSE [p EXCEPT !.toasts =
             showError(@, IF result.error # << >> THEN result.error ELSE MsgFailed)]

\* fault: the catch block logs the error and throws it again
catchRethrows(p) == p

\* the catch block
catch(p) ==
    IF p.threw
    THEN [p EXCEPT !.toasts = showError(@, MsgGeneric), !.caught = TRUE]
    ELSE p

\* fault: the indicator is hidden at the end of the try block only
finallyAtEndOfTry(p) ==
    IF p.threw THEN p ELSE [p EXCEPT !.dNone = hideProcessing(@)]

\* the finally block
finally(p) == [p EXCEPT !.dNone = hideProcessing(@)]

\* fault: an invocation that ended in the catch block sends its request again
CompleteRetries(r, p) ==
    /\ Len(p.toasts) <= MaxToasts
    /\ IF p.threw /\ issued < MaxRequests
       THEN /\ pending' = (pending \ { r })
                              \cup { [r EXCEPT !.id = issued + 1,
                                               !.stage = "fetch"] }
            /\ issued' = issued + 1
       ELSE /\ pending' = pending \ { r }
            /\ issued' = issued
    /\ dNone' = p.dNone
    /\ readers' = p.readers
    /\ predictionsList' = p.predictionsList
    /\ processingTimeText' = p.processingTimeText
    /\ toasts' = p.toasts
    /\ rejected' = (rejected \/ (p.threw /\ ~p.caught))
    /\ UNCHANGED << currentFile, fileInputValue, fileNameText,
                    fileSizeText, previewSrc >>

\* invocation r ends with page p: p is written back
Complete(r, p) ==
    /\ Len(p.toasts) <= MaxToasts
    /\ pending' = pending \ { r }
    /\ dNone' = p.dNone
    /\ readers' = p.readers
    /\ predictionsList' = p.predictionsList
    /\ processingTimeText' = p.processingTimeText
    /\ toasts' = p.toasts
    /\ rejected' = (rejected \/ (p.threw /\ ~p.caught))
    /\ UNCHANGED << currentFile, fileInputValue, fileNameText,
                    fileSizeText, issued, previewSrc >>

Waiting(stage) == { r \in pending : r.stage = stage }

\* HTTP statuses a response may carry
Statuses == { 200, 500 }

\* fault: response.ok is not looked at
responseAlwaysOk(status) == TRUE

responseOk(status) == status \in 200 .. 299

\* fetch() rejects: a network error
FetchReject(r) ==
    /\ r \in Waiting("fetch")
    /\ Complete(r, finally(catch([Page EXCEPT !.threw = TRUE])))

\* fetch() resolves with a response of this status
FetchResolve(r, status) ==
    /\ r \in Waiting("fetch")
    /\ IF ~responseOk(status)
       THEN Complete(r, finally(catch([Page EXCEPT !.threw = TRUE])))
       ELSE /\ pending' = (pending \ { r }) \cup { [r EXCEPT !.stage = "json"] }
            /\ UNCHANGED << selection, fileInputValue, toasts,
                            issued, rejected, rendering >>

\* response.json() rejects: the body is not JSON
JsonReject(r) ==
    /\ r \in Waiting("json")
    /\ Complete(r, finally(catch([Page EXCEPT !.threw = TRUE])))

\* response.json() resolves with this body
JsonResolve(r, result) ==
    /\ r \in Waiting("json")
    /\ Complete(r, finally(catch(applyResult(result, Page))))

(***************************************************************************)
(* Timers and readers.                                                     *)
(***************************************************************************)
\* the src given to #preview-image by reader.onload; the name stands for the bytes
DataURL(file) == "data:" \o file.type \o ";base64," \o file.name

ReaderOnload(file) ==
    /\ file \in readers
    /\ readers' = readers \ { file }
    /\ previewSrc' = DataURL(file)
    /\ UNCHANGED << selection, fileInputValue, toasts, pending,
                    issued, rejected, predictionsList, processingTimeText >>

\* the 5 s timer of the oldest toast
ToastTimeout ==
    /\ toasts # << >>
    /\ toasts' = Tail(toasts)
    /\ UNCHANGED << selection, fileInputValue, pending, issued,
                    rejected, rendering >>

(***************************************************************************)
(* Page-level entry points.                                                *)
(***************************************************************************)
\* onclick of the classify button: the global classifyImage()
ClassifyClick == classifyImage

\* onclick of the clear button: the global clearFile()
ClearClick == clearFile

\* Ctrl/Cmd + Enter
KeydownCtrlEnter == IF currentFile # Null THEN classifyImage ELSE UNCHANGED vars

\* Escape
KeydownEscape == clearFile

(***************************************************************************)
(* Specification of the controller.                                        *)
(***************************************************************************)
Drops(F) == UNION { [1 .. n -> F] : n \in 0 .. MaxDrop }

Next ==
    \/ \E file \in Files \cup { Null } : ChangeListener(file)
    \/ \E files \in Drops(DropFiles) : DropListener(files)
    \/ ClassifyClick
    \/ ClearClick
    \/ KeydownCtrlEnter
    \/ KeydownEscape
    \/ \E r \in pending : FetchReject(r)
    \/ \E r \in pending, status \in Statuses : FetchResolve(r, status)
    \/ \E r \in pending : JsonReject(r)
    \/ \E r \in pending, result \in Bodies : JsonResolve(r, result)
    \/ \E file \in readers : ReaderOnload(file)
    \/ ToastTimeout

Spec == Init /\ [][Next]_vars

(***************************************************************************)
(* Specification of validation alone: every type with every size is        *)
(* offered to the file input; nothing is classified.                       *)
(***************************************************************************)
NextValidate ==
    \/ \E file \in AllFiles \cup { Null } : ChangeListener(file)
    \/ ClearClick
    \/ ToastTimeout

SpecValidate == Init /\ [][NextValidate]_vars

(***************************************************************************)
(* Specification of selection: the file input, the drop zone and the two   *)
(* buttons, with the responses that change what is shown; the preview      *)
(* reader, rejected promises and the keyboard shortcuts are left out.      *)
(***************************************************************************)
NextSelect ==
    \/ \E file \in Files \cup { Null } : ChangeListener(file)
    \/ \E files \in Drops(DropFiles) : DropListener(files)
    \/ ClassifyClick
    \/ ClearClick
    \/ \E r \in pending, status \in Statuses : FetchResolve(r, status)
    \/ \E r \in pending, result \in Bodies : JsonResolve(r, result)
    \/ ToastTimeout

SpecSelect == Init /\ [][NextSelect]_vars

(***************************************************************************)
(* What the user sees.  #processing and #results-display are shown only    *)
(* while #results-section, which contains them, is shown.                  *)
(***************************************************************************)
ProcessingShown == ~dNone["results-section"] /\ ~dNone["processing"]

ResultShown == ~dNone["results-section"] /\ ~dNone["results-display"]

\* the results section is open with neither the indicator nor a result in it
ErrorShown == ~dNone["results-section"] /\ ~ProcessingShown /\ ~ResultShown

UIState ==
    IF ProcessingShown THEN "Processing"
    ELSE IF ResultShown THEN "ResultDisplayed"
    ELSE IF ErrorShown THEN "ErrorDisplayed"
    ELSE IF currentFile # Null THEN "FileSelected"
    ELSE "Idle"

(***************************************************************************)
(* Vocabulary of the properties.                                           *)
(***************************************************************************)
\* the candidate passes validation, as the specification words it
Accepted(f) ==
    /\ f.type \in { "image/png", "image/jpeg", "image/jpg", "image/gif",
                    "image/bmp", "image/tiff" }
    /\ f.size <= 16777216

\* this step is selectFile(f): a change of the file input to f, or a drop of f
\* (a drop of several files acts as the drop of its first file alone)
SelectStep(f) == ChangeListener(f) \/ DropListener(<< f >>)

\* this step is classify() or clear()
ClassifyStep == ClassifyClick \/ KeydownCtrlEnter

ClearStep == ClearClick \/ KeydownEscape

\* the requests this step adds to those in flight
NewRequests == { r \in pending' : \A q \in pending : q.id # r.id }

\* the invocations this step brings to their end
Settled == { r \in pending : \A q \in pending' : q.id # r.id }

Candidates == Files \cup DropFiles

\* what displayResults renders of a body with predictions
RenderedRows(result) ==
    [i \in 1 .. Len(result.predictions) |->
        PredictionItem(result.predictions[i], i - 1)]

(***************************************************************************)
(* Properties.                                                             *)
(***************************************************************************)

\* C1: at most one classification request is in flight at any time: a
\* classify invoked while an earlier request is pending issues no request.
SingleFlight == Cardinality(pending) <= 1

\* C2: whenever a classify invocation comes to its end (its request has
\* settled, on whatever path: error, failure, success, or an exception while
\* rendering), the processing indicator is hidden.
ProcessingClearedOnSettle ==
    [][Settled # {} => dNone'["processing"]]_vars

\* C2 witness: the only invocation ended by an exception raised while the
\* result was being rendered, and the indicator is hidden.
ProcessingClearedAfterRenderError ==
    /\ issued = 1
    /\ pending = {}
    /\ ~dNone["results-display"]
    /\ toasts = << MsgGeneric >>
    /\ dNone["processing"]

\* C3: clear() in any state leaves no selected file and UIState Idle; while
\* no file is selected no step issues a request; and a file becomes selected
\* only by a selectFile that accepts it.
ClearResets ==
    [][ /\ ClearStep => (currentFile' = Null /\ UIState' = "Idle")
        /\ currentFile = Null => (NewRequests = {} /\ issued' = issued)
        /\ (currentFile = Null /\ currentFile' # Null) =>
              \E f \in Candidates :
                  Accepted(f) /\ currentFile' = f /\ SelectStep(f) ]_vars

\* C3 witness: cleared while a request is pending.
ClearedWhilePending ==
    /\ currentFile = Null
    /\ pending # {}
    /\ UIState = "Idle"

\* C4: when a success response arrives after clear() was invoked during the
\* request, its predictions and processing time are rendered as for a normal
\* success, without an error.
LateResultApplied ==
    [][ \A r \in pending : \A b \in Bodies :
          (currentFile = Null /\ b.success /\ b.hasPredictions
             /\ JsonResolve(r, b))
          => /\ predictionsList' = RenderedRows(b)
             /\ processingTimeText' = HundredthsText(b.processing_time)
             /\ toasts' = toasts ]_vars

\* C5: a selectFile whose candidate passes validation, in any UIState, makes
\* the candidate the selected file, sets UIState to FileSelected and leaves
\* no result visible.
AcceptedSelectionReplaces ==
    [][ \A f \in Candidates :
          (Accepted(f) /\ SelectStep(f))
          => /\ currentFile' = f
             /\ UIState' = "FileSelected"
             /\ ~ResultShown' ]_vars

\* C5 witness: another file was selected while a request is pending.
ReplacedWhileProcessing ==
    /\ pending # {}
    /\ currentFile # Null
    /\ \A r \in pending : r.file # currentFile
    /\ UIState = "FileSelected"

\* C6: a selectFile whose candidate fails validation adds one error
\* notification naming the reason and changes neither the selected file, nor
\* UIState, nor what is displayed, and issues no request.
RejectedSelectionLeavesState ==
    [][ \A f \in Candidates :
          (~Accepted(f) /\ SelectStep(f))
          => /\ toasts' = Append(toasts,
                             IF Accepted([f EXCEPT !.size = 0])
                             THEN MsgTooLarge ELSE MsgInvalidType)
             /\ currentFile' = currentFile
             /\ UIState' = UIState
             /\ NewRequests = {}
             /\ UNCHANGED << dNone, fileNameText, fileSizeText, pending,
                             issued, rendering >> ]_vars

\* C6 witness: a candidate was refused while a result is displayed.
RejectedWithResultShown ==
    /\ UIState = "ResultDisplayed"
    /\ currentFile # Null
    /\ toasts = << MsgTooLarge >>

\* C7: validation accepts a file iff its type is one of the six image types
\* and its size is at most 16777216 bytes; a file of an accepted type with a
\* larger size (16777217) is refused as too large.
ValidationAcceptsIff ==
    [][ \A f \in AllFiles :
          ChangeListener(f)
          => /\ Accepted(f) => (currentFile' = f /\ toasts' = toasts)
             /\ ~Accepted(f) =>
                   (currentFile' = currentFile /\ Len(toasts') = Len(toasts) + 1)
             /\ (Accepted([f EXCEPT !.size = 0]) /\ f.size >= 16777217)
                   => toasts' = Append(toasts, MsgTooLarge) ]_vars

\* C7 witness: a file of 16777216 bytes is selected after one of an accepted
\* type was refused as too large.
BoundaryAccepted ==
    /\ currentFile # Null
    /\ currentFile.size = 16777216
    /\ fileInputValue = FakePath(currentFile)
    /\ toasts = << MsgTooLarge >>

\* C8: a file whose type is not one of the six image types is refused with
\* the unsupported-type message whatever its size.
TypeCheckedFirst ==
    [][ \A f \in AllFiles :
          (ChangeListener(f) /\ ~Accepted([f EXCEPT !.size = 0]))
          => /\ toasts' = Append(toasts, MsgInvalidType)
             /\ currentFile' = currentFile ]_vars

\* C8 witness: the file last offered has an unsupported type and more than
\* 16 MiB, and the notification it raised names the type.
OversizeWrongTypeRefused ==
    \E f \in AllFiles :
        /\ ~Accepted([f EXCEPT !.size = 0])
        /\ f.size > 16777216
        /\ fileInputValue = FakePath(f)
        /\ toasts = << MsgInvalidType >>

\* C9: every request in flight carries a file that passes validation.
RequestsCarryValidFile == \A r \in pending : Accepted(r.file)

\* C9 witness: a request is in flight although the file last offered to the
\* file input was refused.
RequestAfterRefusal ==
    /\ pending # {}
    /\ \E f \in Files : ~Accepted(f) /\ fileInputValue = FakePath(f)

\* C10: an accepted selectFile makes the candidate the selected file, and a
\* classify with a selected file issues exactly one request: POST /classify
\* with that file in the field named image.
SelectThenClassify ==
    [][ /\ \A f \in Candidates :
              (Accepted(f) /\ SelectStep(f)) => currentFile' = f
        /\ (ClassifyStep /\ currentFile # Null)
              => /\ Cardinality(NewRequests) = 1
                 /\ issued' = issued + 1
                 /\ \A r \in NewRequests :
                       /\ r.url = "/classify"
                       /\ r.method = "POST"
                       /\ r.field = "image"
                       /\ r.file = currentFile ]_vars

\* C10 witness: the file just chosen is carried by the only request issued.
JustSelectedAndClassified ==
    /\ issued = 1
    /\ \E r \in pending : r.stage = "fetch" /\ r.file = currentFile
    /\ fileInputValue = FakePath(currentFile)
    /\ UIState = "Processing"
    /\ toasts = << >>


(***************************************************************************)
(* C11                                                                     *)
(***************************************************************************)
\* the statuses outside 200-299
NonOkStatuses == { status \in Statuses : status \notin 200 .. 299 }

\* C11 as stated: a response with a status outside 200-299 leaves UIState
\* ErrorDisplayed with a non-empty message and SelectedFile the file that
\* was sent.
NonOkKeepsSentFile ==
    [][\A r \in pending : \A status \in NonOkStatuses :
          FetchResolve(r, status)
              => /\ UIState' = "ErrorDisplayed"
                 /\ Len(toasts') = Len(toasts) + 1
                 /\ toasts'[Len(toasts')] # << >>
                 /\ currentFile' = r.file]_vars

\* C11, amended: a response with a status outside 200-299 raises the generic
\* error message and leaves currentFile as it was when the response came;
\* if the UI showed Processing it shows ErrorDisplayed afterwards.
NonOkShowsError ==
    [][\A r \in pending : \A status \in NonOkStatuses :
          FetchResolve(r, status)
              => /\ toasts' = Append(toasts, MsgGeneric)
                 /\ MsgGeneric # << >>
                 /\ currentFile' = currentFile
                 /\ (UIState = "Processing" => UIState' = "ErrorDisplayed")]_vars

\* one request was made, it failed, and the file that was sent is selected
ErrorShownForSentFile ==
    /\ UIState = "ErrorDisplayed"
    /\ toasts = << MsgGeneric >>
    /\ issued = 1
    /\ pending = {}
    /\ currentFile \in Files
    /\ fileInputValue = FakePath(currentFile)


(***************************************************************************)
(* C12                                                                     *)
(***************************************************************************)
\* C12: a 2xx response with success false shows the server's error text
\* unchanged when there is one and the fallback message otherwise; a
\* network failure or a status outside 200-299 shows the generic message.
ServerErrorVerbatim ==
    [][\A r \in pending :
          /\ \A result \in Bodies :
                (~result.success /\ JsonResolve(r, result))
                    => toasts' = Append(toasts,
                                        IF result.error # << >>
                                        THEN result.error ELSE MsgFailed)
          /\ (FetchReject(r) \/ \E status \in NonOkStatuses :
                                    FetchResolve(r, status))
                => toasts' = Append(toasts, MsgGeneric)]_vars


(***************************************************************************)
(* C13                                                                     *)
(***************************************************************************)
\* C13 as stated: after any error outcome (a validation, transport or
\* application error raises a notification) no error leaves the controller
\* and UIState is FileSelected if a file is selected and Idle otherwise; a
\* classify with a selected file then issues a new request.
ErrorReturnsToSelection ==
    [][ /\ Len(toasts') > Len(toasts)
              => /\ ~rejected'
                 /\ UIState' = IF currentFile' # Null
                               THEN "FileSelected" ELSE "Idle"
        /\ (ClassifyStep /\ currentFile # Null)
              => Cardinality(NewRequests) = 1 ]_vars

\* C13, amended: when a classify invocation ends in an error, the promise it
\* returned does not reject, one notification is raised, UIState is not
\* Processing and the classify button is there whenever a file is selected;
\* a classify with a selected file issues a new request.
ClassifyErrorLeavesInteractive ==
    [][ /\ (Settled # {} /\ (toasts' # toasts \/ rejected'))
              => /\ ~rejected'
                 /\ Len(toasts') = Len(toasts) + 1
                 /\ UIState' # "Processing"
                 /\ (currentFile' # Null => ~dNone'["classify-btn"])
        /\ (ClassifyStep /\ currentFile # Null)
              => Cardinality(NewRequests) = 1 ]_vars

\* C13 witness: the first request ended with the fallback error, and the
\* second one was issued afterwards for the same selection.
RetriedAfterError ==
    /\ issued = 2
    /\ toasts = << MsgFailed >>
    /\ UIState = "Processing"
    /\ \E r \in pending : r.id = 2 /\ r.file = currentFile
    /\ Cardinality(pending) = 1
    /\ ~rejected


(***************************************************************************)
(* C14                                                                     *)
(***************************************************************************)
\* C14: a 2xx response with success true (and a list of predictions) makes
\* UIState ResultDisplayed, raises no error notification, and renders one
\* row per prediction, in the order given, with its label and probability
\* unchanged, and the processing time.
SuccessRendered ==
    [][\A r \in pending : \A result \in Bodies :
          (result.success /\ result.hasPredictions /\ JsonResolve(r, result))
              => /\ UIState' = "ResultDisplayed"
                 /\ toasts' = toasts
                 /\ Len(predictionsList') = Len(result.predictions)
                 /\ \A i \in 1 .. Len(result.predictions) :
                       /\ predictionsList'[i].label = result.predictions[i].class
                       /\ predictionsList'[i].confidence =
                             "Confidence: "
                             \o ToString(result.predictions[i].probability)
                             \o "%"
                 /\ processingTimeText' =
                       HundredthsText(result.processing_time)]_vars


(***************************************************************************)
(* C15                                                                     *)
(***************************************************************************)
\* C15: no request is retried automatically: only a classify step adds a
\* request, it adds at most one, and a step that ends an invocation (a
\* failed one included) adds none.
NoAutomaticRetry ==
    [][ /\ Cardinality(NewRequests) <= 1
        /\ issued' = issued + Cardinality(NewRequests)
        /\ NewRequests # {} => (ClassifyStep /\ Settled = {})
        /\ Settled # {} => NewRequests = {} ]_vars

\* C15 witness: the only request made has failed and nothing is in flight.
FailedAndNotResent ==
    /\ issued = 1
    /\ pending = {}
    /\ toasts = << MsgGeneric >>
    /\ dNone["results-display"]
    /\ currentFile # Null


(***************************************************************************)
(* C16                                                                     *)
(***************************************************************************)
\* the file lists a drop event may carry
AllDrops == Drops(DropFiles)

\* C16: a drop considers its first file only: it is selected if it passes
\* validation and refused with its reason otherwise, whatever files follow
\* it; a drop without files, or a change of the file input to no file,
\* changes neither the selected file nor UIState and raises nothing.
DropTakesFirstFile ==
    [][ /\ \A files \in AllDrops :
              DropListener(files)
                  => IF Len(files) = 0
                     THEN /\ currentFile' = currentFile
                          /\ UIState' = UIState
                          /\ toasts' = toasts
                     ELSE IF Accepted(files[1])
                     THEN /\ currentFile' = files[1]
                          /\ fileNameText' = files[1].name
                          /\ toasts' = toasts
                     ELSE /\ currentFile' = currentFile
                          /\ UIState' = UIState
                          /\ toasts' =
                                Append(toasts,
                                       IF Accepted([files[1] EXCEPT !.size = 0])
                                       THEN MsgTooLarge ELSE MsgInvalidType)
        /\ ChangeListener(Null)
              => /\ currentFile' = currentFile
                 /\ UIState' = UIState
                 /\ toasts' = toasts ]_vars

\* C16 witness: the file input still names photo.jpg, and icon.png, which a
\* later drop carried, is the selected file.
DroppedFileSelected ==
    /\ currentFile = MkFile("icon.png", "image/png", 16777216)
    /\ fileNameText = "icon.png"
    /\ fileInputValue = FakePath(MkFile("photo.jpg", "image/jpeg", 2097152))
    /\ toasts = << >>


(***************************************************************************)
(* C17, C18, C19                                                           *)
(***************************************************************************)
\* C17: when a response renders a result, the preview that is read for it
\* is of the file the request carried, even if another file was selected
\* while the request was pending.
PreviewOfRequestFile ==
    [][\A r \in pending : \A result \in Bodies :
          (JsonResolve(r, result) /\ ResultShown' /\ toasts' = toasts)
              => /\ r.file \in readers'
                 /\ readers' \subseteq readers \cup { r.file }]_vars

\* C18: the processing indicator is shown whenever a request is in flight.
ProcessingWhilePending == pending # {} => ~dNone["processing"]

\* C19: an invocation never both makes the results display visible and
\* raises an error notification.
OneOutcome ==
    [][Settled # {}
          => ~ /\ dNone["results-display"]
               /\ ~dNone'["results-display"]
               /\ Len(toasts') > Len(toasts)]_vars

=============================================================================
